---- MODULE Spec2Model ----
(***************************************************************************)
(* A model of the ICMP echo client of src/main.go: the function ping, the *)
(* checksum routine checkSum, and the package-level statistics counters.  *)
(*                                                                         *)
(* ping is one sequential function; it is cut into steps at the calls     *)
(* that talk to the transport (DialTimeout, Write, Read), whose outcome   *)
(* the environment chooses.  Everything the code does between two such    *)
(* calls is one action.                                                    *)
(***************************************************************************)
EXTENDS Integers, Sequences, FiniteSets, TLC

(***************************************************************************)
(* Bounds of the model.                                                    *)
(***************************************************************************)
\* largest -n (count) of the short runs
MaxCount == 3
\* largest -l (size): buffers of 8, 9 and 10 bytes, even and odd lengths
MaxSize == 2
\* largest -w (timeout), in milliseconds
MaxTimeout == 1
\* how many milliseconds after the deadline the elapsed time may be measured
MaxLag == 1
\* how many requests a long run sends beyond the 16-bit sequence range
WrapExtra == 2
\* longest byte sequence checkSum is applied to on its own
MaxLen == 5

(***************************************************************************)
(* Program constants.                                                      *)
(***************************************************************************)
MaxInt32 == 2147483647
EchoRequestType == 8
EchoRequestCode == 0

Uint16 == 2^16
LongCount == Uint16 + WrapExtra

VARIABLES
    timeout,        \* -w, milliseconds
    count,          \* -n
    size,           \* -l
    pc,             \* where ping stands
    i,              \* the loop index
    sendCount,
    successCount,
    failCount,
    minTs,
    maxTs,
    totalTs,
    data,           \* the buffer of the request built last (<<>> before the first)
    conn,           \* "nil" before/without a connection, then "open", then "closed"
    opens,          \* how many connections DialTimeout has handed out
    summary,        \* the statistics block printed, <<>> while none is
    elapsedAll,     \* the elapsed time, since tStart, of every attempt counted in
                    \* sendCount, summed (the code measures it only after a Read)
    deadline,       \* <<>> while the connection has none, else <<d>>: it expires
                    \* d milliseconds after it was set
    buf,            \* what the last Read put into its buffer: <<>> nothing, else
                    \* <<datagram>>
    csIn,           \* checkSum called on its own: the argument is the bytes of
    csFill,         \* csIn followed by csFill bytes 0xFF
    csPc,           \* where that call stands
    csLen,          \* its local len
    csIdx,          \* its local idx
    csSum,          \* its local sum
    csOut           \* <<>>, then <<what it returned>>

vars == <<timeout, count, size, pc, i, sendCount, successCount, failCount,
          minTs, maxTs, totalTs, data, conn, opens, summary, elapsedAll,
          deadline, buf, csIn, csFill, csPc, csLen, csIdx, csSum, csOut>>

probe == <<csIn, csFill, csPc, csLen, csIdx, csSum, csOut>>

args == <<timeout, count, size>>
counters == <<sendCount, successCount, failCount>>
latencies == <<minTs, maxTs, totalTs>>

Max(a, b) == IF a > b THEN a ELSE b

(***************************************************************************)
(* checkSum: the sum of the big-endian 16-bit words in a uint32, a         *)
(* trailing byte added as it is, the carries folded back in, the result    *)
(* complemented and cut to 16 bits.  The error result is always nil.       *)
(* The uint32 sum is kept as its two 16-bit halves [hi, lo], so that an    *)
(* addition wraps at 2^32 as the code's does.                              *)
(***************************************************************************)
AddUint32(sum, n) ==
    [hi |-> (sum.hi + (sum.lo + n) \div Uint16) % Uint16,
     lo |-> (sum.lo + n) % Uint16]

RECURSIVE SumWords(_, _, _)
SumWords(bytes, idx, sum) ==
    LET len == Len(bytes) - (idx - 1) IN
    IF len > 1
        THEN SumWords(bytes, idx + 2, AddUint32(sum, bytes[idx] * 256 + bytes[idx + 1]))
        ELSE IF len = 1 THEN AddUint32(sum, bytes[idx]) ELSE sum

FoldOnce(sum) ==
    IF sum.hi # 0 THEN AddUint32([hi |-> 0, lo |-> sum.hi], sum.lo) ELSE sum

RECURSIVE Fold(_)
Fold(sum) ==
    IF sum.hi # 0 THEN Fold(AddUint32([hi |-> 0, lo |-> sum.hi], sum.lo)) ELSE sum

checkSum(bytes) ==
    [val |-> (Uint16 - 1) - Fold(SumWords(bytes, 1, [hi |-> 0, lo |-> 0])).lo,
     err |-> FALSE]

(***************************************************************************)
(* The request of iteration n: the ICMP struct written big-endian,         *)
(* followed by size zero bytes, the checksum then stored in bytes 2-3.     *)
(***************************************************************************)
SeqNumFromOne(n) == (n + 1) % Uint16

SeqNum(n) == n % Uint16

ICMP(n) ==
    [Type |-> EchoRequestType, Code |-> EchoRequestCode, CheckSum |-> 0,
     ID |-> SeqNum(n), SeqNum |-> SeqNum(n)]

LittleEndian(icmp) ==
    <<icmp.Type, icmp.Code,
      icmp.CheckSum % 256, icmp.CheckSum \div 256,
      icmp.ID % 256, icmp.ID \div 256,
      icmp.SeqNum % 256, icmp.SeqNum \div 256>>

BigEndian(icmp) ==
    <<icmp.Type, icmp.Code,
      icmp.CheckSum \div 256, icmp.CheckSum % 256,
      icmp.ID \div 256, icmp.ID % 256,
      icmp.SeqNum \div 256, icmp.SeqNum % 256>>

Payload(s) == [k \in 1..s |-> 0]

EmbedSwapped(bytes, cs) ==
    [bytes EXCEPT ![3] = cs % 256, ![4] = (cs \div 256) % 256]

Embed(bytes, cs) ==
    [bytes EXCEPT ![3] = (cs \div 256) % 256, ![4] = cs % 256]

\* the fields a buffer carries
IdOf(bytes) == bytes[5] * 256 + bytes[6]
SeqOf(bytes) == bytes[7] * 256 + bytes[8]

(***************************************************************************)
(* The initial state: the flags parsed, the counters as declared.  The     *)
(* count may be negative (the loop then never runs).  The size is a        *)
(* payload size, 0 or more: make([]byte, size) panics on a negative one.   *)
(***************************************************************************)
InitWith(counts) ==
    /\ timeout \in 0..MaxTimeout
    /\ count \in counts
    /\ size \in 0..MaxSize
    /\ pc = "dial"
    /\ i = 0
    /\ sendCount = 0
    /\ successCount = 0
    /\ failCount = 0
    /\ minTs = MaxInt32
    /\ maxTs = 0
    /\ totalTs = 0
    /\ data = <<>>
    /\ conn = "nil"
    /\ opens = 0
    /\ summary = <<>>
    /\ elapsedAll = 0
    /\ deadline = <<>>
    /\ buf = <<>>
    /\ csIn = <<>>
    /\ csFill = 0
    /\ csPc = "idle"
    /\ csLen = 0
    /\ csIdx = 0
    /\ csSum = [hi |-> 0, lo |-> 0]
    /\ csOut = <<>>

Init == InitWith((-1)..MaxCount)

(***************************************************************************)
(* net.DialTimeout: a connection, or an error and os.Exit(0).              *)
(***************************************************************************)
DialOk ==
    /\ pc = "dial"
    /\ conn' = "open"
    /\ opens' = opens + 1
    /\ pc' = "loop"
    /\ UNCHANGED <<args, probe, deadline, buf, i, counters, latencies, data, summary, elapsedAll>>

DialFailsContinues ==
    /\ pc = "dial"
    /\ pc' = "loop"
    /\ UNCHANGED <<args, probe, deadline, buf, i, counters, latencies, data, conn, opens, summary, elapsedAll>>

DialFails ==
    /\ pc = "dial"
    /\ pc' = "exited"
    /\ UNCHANGED <<args, probe, deadline, buf, i, counters, latencies, data, conn, opens, summary, elapsedAll>>

(***************************************************************************)
(* The head of an iteration, up to the Write: count the request, build    *)
(* the buffer, compute and store the checksum, set the deadline, take      *)
(* tStart.  A checksum error would count a failure and go on.              *)
(***************************************************************************)
\* conn.SetDeadline(time.Now().Add(ms milliseconds))
SetDeadlineNever(ms) == <<>>

SetDeadline(ms) == <<ms>>

Build ==
    /\ pc = "loop"
    /\ i < count
    /\ sendCount' = sendCount + 1
    /\ LET buffer == BigEndian(ICMP(i)) \o Payload(size)
           sum == checkSum(buffer)
       IN  IF sum.err
               THEN /\ failCount' = failCount + 1
                    /\ i' = i + 1
                    /\ data' = buffer
                    /\ pc' = "loop"
                    /\ UNCHANGED deadline
               ELSE /\ data' = Embed(buffer, sum.val)
                    /\ deadline' = SetDeadline(timeout)
                    /\ pc' = "write"
                    /\ UNCHANGED <<i, failCount>>
    /\ UNCHANGED <<args, probe, buf, successCount, latencies, conn, opens, summary, elapsedAll>>

(***************************************************************************)
(* conn.Write: with a deadline of now + timeout a timeout of 0 has         *)
(* expired before the call, which then fails.  A failed write counts a     *)
(* failure and goes on to the next iteration; its elapsed time e is never  *)
(* measured.                                                               *)
(***************************************************************************)
WriteOkNoWait ==
    /\ pc = "write"
    /\ deadline # <<>> => deadline[1] > 0
    /\ i' = i + 1
    /\ pc' = "loop"
    /\ UNCHANGED <<args, probe, deadline, buf, counters, latencies, data, conn, opens,
                   summary, elapsedAll>>

WriteOk ==
    /\ pc = "write"
    /\ deadline # <<>> => deadline[1] > 0
    /\ pc' = "read"
    /\ UNCHANGED <<args, probe, deadline, buf, i, counters, latencies, data, conn, opens, summary, elapsedAll>>

WriteFailsUncounted ==
    /\ pc = "write"
    /\ \E e \in 0..(timeout + MaxLag) : elapsedAll' = elapsedAll + e
    /\ i' = i + 1
    /\ pc' = "loop"
    /\ UNCHANGED <<args, probe, deadline, buf, counters, latencies, data, conn, opens, summary>>

WriteFailsThenReads ==
    /\ pc = "write"
    /\ failCount' = failCount + 1
    /\ pc' = "read"
    /\ UNCHANGED <<args, probe, deadline, buf, i, sendCount, successCount, latencies,
                   data, conn, opens, summary, elapsedAll>>

WriteFails ==
    /\ pc = "write"
    /\ \E e \in 0..(timeout + MaxLag) : elapsedAll' = elapsedAll + e
    /\ failCount' = failCount + 1
    /\ i' = i + 1
    /\ pc' = "loop"
    /\ UNCHANGED <<args, probe, deadline, buf, sendCount, successCount, latencies, data, conn, opens, summary>>

(***************************************************************************)
(* conn.Read and what follows it: tSpend is added to the statistics, then  *)
(* the attempt is counted as failed (any error) or succeeded.  Read hands  *)
(* over whatever datagram the socket received: the echo reply to the       *)
(* request just sent, the late reply to the request before it, or another  *)
(* ICMP message carrying either request's numbers.  Nothing in the buffer  *)
(* is compared with the request.                                           *)
(***************************************************************************)
\* ICMP message types a datagram may carry: echo reply, destination unreachable
ReplyTypes == {0, 3}
EchoReply(bytes) == [type |-> 0, id |-> IdOf(bytes), seq |-> SeqOf(bytes)]

PreviousSeq(bytes) == (SeqOf(bytes) + Uint16 - 1) % Uint16

Datagrams(sent) ==
    {[type |-> t, id |-> s, seq |-> s] :
        t \in ReplyTypes,
        s \in {SeqOf(sent), PreviousSeq(sent)}}

AccumulateFlipped(tSpend) ==
    /\ totalTs' = totalTs + tSpend
    /\ minTs' = IF minTs < tSpend THEN tSpend ELSE minTs
    /\ maxTs' = IF maxTs < tSpend THEN tSpend ELSE maxTs
    /\ elapsedAll' = elapsedAll + tSpend

Accumulate(tSpend) ==
    /\ totalTs' = totalTs + tSpend
    /\ minTs' = IF minTs > tSpend THEN tSpend ELSE minTs
    /\ maxTs' = IF maxTs < tSpend THEN tSpend ELSE maxTs
    /\ elapsedAll' = elapsedAll + tSpend

ReadFailsAborts ==
    /\ pc = "read"
    /\ \E tSpend \in 0..(timeout + MaxLag) : Accumulate(tSpend)
    /\ failCount' = failCount + 1
    /\ i' = count
    /\ pc' = "loop"
    /\ buf' = <<>>
    /\ UNCHANGED <<args, probe, deadline, sendCount, successCount, data, conn, opens, summary>>

ReadFailsRetries ==
    /\ pc = "read"
    /\ pc' = "write"
    /\ UNCHANGED <<args, probe, deadline, buf, i, counters, latencies, data, conn,
                   opens, summary, elapsedAll>>

ReadFails ==
    /\ pc = "read"
    /\ \E tSpend \in 0..(timeout + MaxLag) : Accumulate(tSpend)
    /\ failCount' = failCount + 1
    /\ i' = i + 1
    /\ pc' = "loop"
    /\ buf' = <<>>
    /\ UNCHANGED <<args, probe, deadline, sendCount, successCount, data, conn, opens, summary>>

ReadReplyChecked ==
    /\ pc = "read"
    /\ \E tSpend \in 0..(timeout + MaxLag) : Accumulate(tSpend)
    /\ \E d \in Datagrams(data) :
          /\ buf' = <<d>>
          /\ IF d = EchoReply(data)
                THEN successCount' = successCount + 1 /\ UNCHANGED failCount
                ELSE failCount' = failCount + 1 /\ UNCHANGED successCount
    /\ i' = i + 1
    /\ pc' = "loop"
    /\ UNCHANGED <<args, probe, deadline, sendCount, data, conn, opens, summary>>

ReadReplyForgets ==
    /\ pc = "read"
    /\ \E tSpend \in 0..(timeout + MaxLag) : Accumulate(tSpend)
    /\ \E d \in Datagrams(data) : buf' = <<d>>
    /\ i' = i + 1
    /\ pc' = "loop"
    /\ UNCHANGED <<args, probe, deadline, counters, data, conn, opens, summary>>

ReadReply ==
    /\ pc = "read"
    /\ \E tSpend \in 0..(timeout + MaxLag) : Accumulate(tSpend)
    /\ successCount' = successCount + 1
    /\ i' = i + 1
    /\ pc' = "loop"
    /\ \E d \in Datagrams(data) : buf' = <<d>>
    /\ UNCHANGED <<args, probe, deadline, sendCount, failCount, data, conn, opens, summary>>

(***************************************************************************)
(* The summary.  Printf's arguments are evaluated first: the float         *)
(* quotient failCount/sendCount (printed with two decimals, no factor of   *)
(* 100) and the integer quotient totalTs/sendCount, which panics when      *)
(* sendCount is 0, before anything is printed.  The deferred Close runs    *)
(* on return and on panic alike.                                           *)
(***************************************************************************)
\* n/d to the nearest integer (n >= 0, d > 0)
Rounded(n, d) == (2 * n + d) \div (2 * d)

\* what %.2f shows of failCount/sendCount, in hundredths
LossShown == Rounded(100 * failCount, sendCount)

Statistics ==
    [sent |-> sendCount, received |-> successCount, lost |-> failCount,
     loss |-> LossShown, min |-> minTs, max |-> maxTs,
     avg |-> totalTs \div sendCount]

Summarize ==
    /\ pc = "loop"
    /\ ~(i < count)
    /\ sendCount # 0
    /\ summary' = <<Statistics>>
    /\ conn' = "closed"
    /\ pc' = "done"
    /\ UNCHANGED <<args, probe, deadline, buf, i, counters, latencies, data, opens, elapsedAll>>

SummaryPanicsNoClose ==
    /\ pc = "loop"
    /\ ~(i < count)
    /\ sendCount = 0
    /\ pc' = "panicked"
    /\ UNCHANGED <<args, probe, deadline, buf, i, counters, latencies, data, conn, opens, summary, elapsedAll>>

SummaryPanics ==
    /\ pc = "loop"
    /\ ~(i < count)
    /\ sendCount = 0
    /\ conn' = "closed"
    /\ pc' = "panicked"
    /\ UNCHANGED <<args, probe, deadline, buf, i, counters, latencies, data, opens, summary, elapsedAll>>

Next ==
    \/ DialOk
    \/ DialFails
    \/ Build
    \/ WriteOk
    \/ WriteFails
    \/ ReadReply
    \/ ReadFails
    \/ Summarize
    \/ SummaryPanics

Spec == Init /\ [][Next]_vars

(***************************************************************************)
(* The short runs together with a long one, whose count exceeds the range  *)
(* of the 16-bit sequence number.  In the long run the transport answers   *)
(* each of the first 2^16 requests within the same millisecond; after      *)
(* them it behaves as it likes.                                            *)
(***************************************************************************)
InitLong ==
    /\ InitWith(((-1)..MaxCount) \cup {LongCount})
    /\ count = LongCount => timeout = MaxTimeout

QuietPrefix ==
    (count = LongCount /\ i < Uint16) =>
        /\ failCount' = failCount
        /\ totalTs' = totalTs
        /\ elapsedAll' = elapsedAll
        /\ buf' = <<EchoReply(data)>>

NextLong ==
    \/ DialOk
    \/ DialFails
    \/ Build
    \/ WriteOk
    \/ WriteFails /\ QuietPrefix
    \/ ReadReply /\ QuietPrefix
    \/ ReadFails /\ QuietPrefix
    \/ Summarize
    \/ SummaryPanics

SpecLong == InitLong /\ [][NextLong]_vars

(***************************************************************************)
(* checkSum on its own, one step for each turn of its first loop, so that  *)
(* arguments too long to be held as a sequence can be summed: the argument *)
(* is a sequence of at most MaxLen bytes (each the least, the greatest or  *)
(* another byte value), or 0xFF repeated: as many words 0xFFFF as a uint32 *)
(* can hold the sum of, or one word more.                                  *)
(***************************************************************************)
SampleBytes == {0, 1, 255}

ByteSeqs == UNION {[1..n -> SampleBytes] : n \in 0..MaxLen}

\* the most words 0xFFFF whose sum is below 2^32: (2^16 + 1) * (2^16 - 1) = 2^32 - 1
SafeWords == Uint16 + 1

LongFills == {2 * SafeWords, 2 * SafeWords + 2}

\* data[k] of the argument, k counted from 0
ByteAt(k) == IF k < Len(csIn) THEN csIn[k + 1] ELSE 255

InitCheckSum ==
    /\ \/ csIn \in ByteSeqs /\ csFill = 0
       \/ csIn = <<>> /\ csFill \in LongFills
    /\ csPc = "call"
    /\ csLen = 0 /\ csIdx = 0 /\ csSum = [hi |-> 0, lo |-> 0]
    /\ csOut = <<>>
    /\ timeout = 0 /\ count = 0 /\ size = 0
    /\ pc = "dial" /\ i = 0
    /\ sendCount = 0 /\ successCount = 0 /\ failCount = 0
    /\ minTs = MaxInt32 /\ maxTs = 0 /\ totalTs = 0
    /\ data = <<>> /\ conn = "nil" /\ opens = 0
    /\ summary = <<>> /\ elapsedAll = 0
    /\ deadline = <<>> /\ buf = <<>>

pingState == <<args, pc, i, counters, latencies, data, conn, opens, summary,
          elapsedAll, deadline, buf>>

CheckSumCall ==
    /\ csPc = "call"
    /\ csLen' = Len(csIn) + csFill
    /\ csIdx' = 0
    /\ csSum' = [hi |-> 0, lo |-> 0]
    /\ csPc' = "sum"
    /\ UNCHANGED <<pingState, csIn, csFill, csOut>>

CheckSumPair ==
    /\ csPc = "sum"
    /\ csLen > 1
    /\ csSum' = AddUint32(csSum, ByteAt(csIdx) * 256 + ByteAt(csIdx + 1))
    /\ csLen' = csLen - 2
    /\ csIdx' = csIdx + 2
    /\ UNCHANGED <<pingState, csIn, csFill, csPc, csOut>>

CheckSumReturn ==
    /\ csPc = "sum"
    /\ ~(csLen > 1)
    /\ csSum' = Fold(IF csLen = 1 THEN AddUint32(csSum, ByteAt(csIdx)) ELSE csSum)
    /\ csOut' = <<[val |-> (Uint16 - 1) - csSum'.lo, err |-> FALSE]>>
    /\ csPc' = "returned"
    /\ UNCHANGED <<pingState, csIn, csFill, csLen, csIdx>>

NextCheckSum ==
    \/ CheckSumCall
    \/ CheckSumPair
    \/ CheckSumReturn

SpecCheckSum == InitCheckSum /\ [][NextCheckSum]_vars

(***************************************************************************)
(* The run under the scheduling the program has: it is one thread that     *)
(* keeps running, and every call it blocks in returns (Read by the         *)
(* deadline at the latest), so a step that can be taken is taken.  The     *)
(* payload size, which no branch of ping looks at, is fixed at 0.          *)
(***************************************************************************)
InitFair == Init /\ size = 0

SpecFair == InitFair /\ [][Next]_vars /\ WF_vars(Next)

(***************************************************************************)
(* Properties.                                                             *)
(***************************************************************************)
\* the run is over after its loop: the summary was printed, or panicked
Completed == pc \in {"done", "panicked"}

\* C1: when a run that opened its transport is over, sent = succeeded + failed,
\* in the counters and in the summary printed.
C1_SentIsSucceededPlusFailed ==
    /\ Completed => sendCount = successCount + failCount
    /\ pc = "done" => summary[1].sent = summary[1].received + summary[1].lost

C1_Witness == pc = "done" /\ successCount >= 1 /\ failCount >= 2

\* C2: the loss shown in the summary is failed / sent * 100 (here in
\* hundredths of a percent, as two decimals show it).
C2_LossIsPercentage ==
    pc = "done" => summary[1].loss = Rounded(100 * 100 * failCount, sendCount)

\* C3: with count = 0 and the transport open, the run ends normally with a
\* summary of 0 sent, 0 succeeded, 0 failed: no division by zero, no crash.
C3_EmptyRunIsSummarized ==
    (count = 0 /\ opens = 1 /\ pc # "loop") =>
        /\ pc = "done"
        /\ Len(summary) = 1
        /\ summary[1].sent = 0 /\ summary[1].received = 0 /\ summary[1].lost = 0

\* C4: in a completed run with sent > 0 the values reported satisfy
\* min <= avg <= max, avg being totalTs / sent.
C4_MinAvgMax ==
    (pc = "done" /\ sendCount > 0) =>
        /\ summary[1].avg = totalTs \div sendCount
        /\ summary[1].min <= summary[1].avg
        /\ summary[1].avg <= summary[1].max

\* C5: every attempt counted in sent adds its elapsed time to min, max and
\* total, also one that fails at transmission: at completion totalTs is the sum
\* of the elapsed times of all attempts sent, and min <= max once one was sent.
C5_EveryAttemptIsTimed ==
    Completed =>
        /\ totalTs = elapsedAll
        /\ sendCount > 0 => minTs <= maxTs

BuildsRequest == pc = "loop" /\ pc' = "write"

\* C7 (as stated): the sequence numbers start at 0 and strictly increase from
\* each request to the next, for every count.
C7_SeqStrictlyIncreases ==
    [][BuildsRequest =>
          IF i = 0 THEN SeqOf(data') = 0 ELSE SeqOf(data') > SeqOf(data)]_vars

\* C7 (amended): request i carries i mod 2^16 as identifier and as sequence
\* number: 0 first, one more with each request while i < 2^16 (so that each
\* value is used once in a run of at most 2^16 requests), then 0 again.
C7_SeqIsIndexModUint16 ==
    [][BuildsRequest =>
          /\ SeqOf(data') = i % Uint16
          /\ IdOf(data') = i % Uint16
          /\ i < Uint16 => SeqOf(data') = i
          /\ i > 0 => SeqOf(data') = (SeqOf(data) + 1) % Uint16]_vars

C7_Witness == pc = "write" /\ i = Uint16 /\ SeqOf(data) = 0

\* C8: an error of one attempt never ends the run: back at the head of the
\* loop every iteration so far was counted, and a run that opened its
\* transport ends with sent = count (0 for a negative count).
C8_ErrorsDoNotAbort ==
    /\ pc = "loop" => sendCount = i /\ i <= Max(count, 0)
    /\ Completed => sendCount = Max(count, 0) /\ i = Max(count, 0)

C8_Witness == pc = "done" /\ count >= 2 /\ failCount = count

\* C9: the transport is opened at most once, stays open for all attempts, and
\* is closed when the run ends after the summary or by a panic in it; after a
\* failed open there is no transport.
C9_TransportOpenedOnceAndClosed ==
    /\ opens <= 1
    /\ pc \in {"loop", "write", "read"} => conn = "open" /\ opens = 1
    /\ Completed => conn = "closed" /\ opens = 1
    /\ pc = "exited" => conn = "nil" /\ opens = 0

C9_Witness == pc = "panicked" /\ conn = "closed" /\ opens = 1

\* C10: checkSum over a buffer as transmitted, its checksum in bytes 2-3,
\* is 0: the folded sum of its words is 0xFFFF.
C10_ChecksumVerifies ==
    pc \in {"write", "read"} =>
        /\ checkSum(data).val = 0
        /\ Fold(SumWords(data, 1, [hi |-> 0, lo |-> 0])) = [hi |-> 0, lo |-> Uint16 - 1]

C10_Witness ==
    /\ pc = "read"
    /\ Len(data) % 2 = 1
    /\ SeqOf(data) = Uint16 - 1

\* the sum of the big-endian 16-bit words of a short byte sequence, a trailing
\* byte added as it is
RECURSIVE WordSum(_)
WordSum(bytes) ==
    IF Len(bytes) = 0 THEN 0
    ELSE IF Len(bytes) = 1 THEN bytes[1]
    ELSE bytes[1] * 256 + bytes[2] + WordSum(SubSeq(bytes, 3, Len(bytes)))

\* a sum with its carries out of 16 bits added back in
EndAroundCarry(n) == IF n = 0 THEN 0 ELSE ((n - 1) % (Uint16 - 1)) + 1

\* the folded sum of the argument of the call; one or more words 0xFFFF sum
\* to a multiple of 0xFFFF, which folds to 0xFFFF
FoldedSumOfArgument ==
    IF csFill = 0 THEN EndAroundCarry(WordSum(csIn)) ELSE Uint16 - 1

CheckSumIsFoldedComplement ==
    /\ csOut[1].val = (Uint16 - 1) - FoldedSumOfArgument
    /\ ~csOut[1].err
    /\ (csFill = 0 /\ csIn = <<>>) => csOut[1].val = 65535
    /\ (csFill = 0 /\ csIn = <<0, 1>>) => csOut[1].val = 65534
    /\ (csFill = 0 /\ csIn = <<255, 255, 1>>) => csOut[1].val = 65534

\* C11 (as stated): for every byte sequence checkSum returns the 16-bit
\* complement of the end-around-carry-folded sum of its big-endian words, a
\* trailing byte added unshifted, and no error; 0xFFFF for [], 0xFFFE for
\* [0x00,0x01] and for [0xFF,0xFF,0x01].
C11_CheckSumOfEverySequence ==
    csPc = "returned" => CheckSumIsFoldedComplement

\* C11 (amended): the same for every byte sequence of at most 131,074 bytes
\* (2^16 + 1 words), whose sum of words always fits the uint32 it is kept in.
C11_CheckSumOfBoundedSequence ==
    (csPc = "returned" /\ Len(csIn) + csFill <= 2 * SafeWords) =>
        CheckSumIsFoldedComplement

C11_Witness ==
    /\ csPc = "returned"
    /\ csIn = <<255, 255, 1>> /\ csFill = 0
    /\ csOut = <<[val |-> 65534, err |-> FALSE]>>

\* the operator checkSum, which builds the requests, and the stepwise call agree
CheckSumStepsAgree ==
    (csPc = "returned" /\ csFill = 0) => csOut[1] = checkSum(csIn)

\* the requests counted in sendCount and not yet counted as succeeded or failed
Outstanding == sendCount - (successCount + failCount)

\* C12: requests are strictly sequential: at most one is outstanding, and the
\* next one is counted and built only at the head of the loop, when every
\* request before it has been counted as succeeded or failed.
C12_OneRequestAtATime ==
    [][/\ Outstanding' \in {0, 1}
       /\ sendCount' # sendCount =>
              /\ pc = "loop" /\ Outstanding = 0
              /\ sendCount' = sendCount + 1]_vars

C12_Witness == pc = "read" /\ sendCount >= 2 /\ Outstanding = 1

\* C13: a failed Write counts the attempt as failed once, reads nothing and
\* goes to the next iteration; Read is reached only from a Write that
\* succeeded, which counts nothing, and each Read ends its attempt.
C13_WriteFailureSkipsRead ==
    [][/\ (pc = "write" /\ pc' # "read") =>
              /\ failCount' = failCount + 1
              /\ sendCount' = sendCount /\ successCount' = successCount
              /\ i' = i + 1 /\ pc' = "loop"
              /\ UNCHANGED <<latencies, buf>>
       /\ pc' = "read" => pc = "write" /\ UNCHANGED <<i, counters, latencies, buf>>
       /\ pc = "read" =>
              /\ pc' = "loop" /\ i' = i + 1
              /\ successCount' + failCount' = successCount + failCount + 1]_vars

C13_Witness ==
    /\ pc = "loop" /\ i = 1
    /\ sendCount = 1 /\ failCount = 1
    /\ minTs = MaxInt32 /\ timeout > 0

\* C14: whatever datagram Read hands over counts the current request as
\* succeeded: its type, identifier and sequence number are not looked at.
C14_AnyDatagramIsTheReply ==
    [][(pc = "read" /\ buf' # <<>>) =>
          /\ successCount' = successCount + 1
          /\ failCount' = failCount]_vars

\* the first request failed, the second counts as succeeded on a reply that
\* carries the numbers of the first
C14_Witness ==
    /\ pc = "loop" /\ i = 2
    /\ failCount = 1 /\ successCount = 1
    /\ SeqOf(data) = 1
    /\ buf = <<[type |-> 0, id |-> 0, seq |-> 0]>>

Ended == pc \in {"done", "panicked", "exited"}

\* C15: every run reaches its end, and the loop never makes more than count
\* iterations or attempts.
C15_RunTerminates ==
    /\ <>Ended
    /\ [](i <= Max(count, 0) /\ sendCount <= Max(count, 0))

C15_Witness ==
    /\ pc = "done" /\ count >= 2 /\ sendCount = count
    /\ successCount >= 1 /\ failCount >= 1

\* C16: minTs starts at MaxInt32 and never increases, maxTs starts at 0 and
\* never decreases, totalTs never decreases, and after a Read, and from then
\* on, minTs <= maxTs.
C16_LatenciesMonotone ==
    /\ minTs = MaxInt32 /\ maxTs = 0 /\ totalTs = 0
    /\ [][/\ minTs' <= minTs
          /\ maxTs' >= maxTs
          /\ totalTs' >= totalTs
          /\ pc = "read" => minTs' <= maxTs'
          /\ minTs <= maxTs => minTs' <= maxTs']_vars

C16_Witness == pc = "loop" /\ 0 < minTs /\ minTs < maxTs

\* C17 (as stated): a fresh deadline of timeout is set before each transmission,
\* and every elapsed time recorded, so maxTs, is at most timeout.
C17_ElapsedWithinTimeout ==
    /\ pc \in {"write", "read"} => deadline = <<timeout>>
    /\ maxTs <= timeout

\* C17 (amended): a fresh deadline of timeout is set before each transmission
\* and covers its Write and its Read; an attempt is counted as succeeded only
\* when its Write went out and its Read handed over a datagram under that
\* deadline, and a Read with no reply can end as failed.  An elapsed time is
\* recorded only after a Read has returned (the witness: it may exceed timeout).
C17_DeadlineCoversAttempt ==
    [][/\ (pc = "loop" /\ pc' = "write") => deadline' = <<timeout>>
       /\ pc' \in {"write", "read"} => deadline' = <<timeout>>
       /\ pc' = "read" => timeout > 0
       /\ successCount' # successCount =>
              pc = "read" /\ deadline = <<timeout>> /\ buf' # <<>>
       /\ pc = "read" => ENABLED ReadFails
       /\ maxTs' # maxTs => pc = "read"]_vars

C17_Witness == pc = "loop" /\ successCount >= 1 /\ failCount = 0 /\ maxTs > timeout

\* C18: the buffer of iteration i with size s has 8 + s bytes: 8, 0, the
\* checksum high byte then low byte, i mod 2^16 big-endian twice, and s zero
\* bytes; the checksum is checkSum of the buffer with bytes 2-3 zero.
C18_RequestLayout ==
    pc \in {"write", "read"} =>
        LET zeroed == [data EXCEPT ![3] = 0, ![4] = 0]
            sum == checkSum(zeroed).val
            n == i % Uint16
        IN  /\ Len(data) = 8 + size
            /\ data[1] = 8 /\ data[2] = 0
            /\ data[3] = sum \div 256 /\ data[4] = sum % 256
            /\ data[5] = n \div 256 /\ data[6] = n % 256
            /\ data[7] = n \div 256 /\ data[8] = n % 256
            /\ \A k \in 9..Len(data) : data[k] = 0

C18_Witness ==
    /\ pc = "write" /\ i = 258 /\ size = 1
    /\ Len(data) = 9 /\ data[7] = 1 /\ data[8] = 2 /\ data[9] = 0

CountersInRange ==
    /\ successCount + failCount <= sendCount
    /\ sendCount <= Max(count, 0)
    /\ Outstanding \in {0, 1}
    /\ Outstanding = 1 <=> pc \in {"write", "read"}

\* C19: in every state succeeded + failed <= sent <= max(count, 0), sent exceeds
\* succeeded + failed by 1 exactly while an attempt is in flight and by 0
\* otherwise, and no counter ever decreases.
C19_CountersInEveryState ==
    /\ CountersInRange
    /\ [][/\ CountersInRange'
          /\ sendCount' >= sendCount
          /\ successCount' >= successCount
          /\ failCount' >= failCount]_vars

C19_Witness ==
    /\ pc = "write" /\ Outstanding = 1
    /\ successCount >= 1 /\ failCount >= 1

====
